---- MODULE Spec2Model ----
(***************************************************************************)
(* EnerShift dashboard (EnerShiftDashboard.tsx) and its EnhancedFeatures   *)
(* child component (EnhancedFeatures.tsx).                                 *)
(*                                                                         *)
(* JavaScript numbers are modelled as exact rationals [n, d] in lowest     *)
(* terms with d >= 0.  d = 0 encodes the non-finite values: n = 1 is       *)
(* Infinity, n = -1 is -Infinity and n = 0 is NaN.  Binary rounding of     *)
(* IEEE doubles is not modelled.                                           *)
(***************************************************************************)
EXTENDS Integers, Sequences, FiniteSets, TLC

\* null: a record no other value equals
NULL == [null |-> TRUE]

(***************************************************************************)
(* Numbers                                                                 *)
(***************************************************************************)
Abs(x) == IF x < 0 THEN -x ELSE x

Sign(x) == IF x > 0 THEN 1 ELSE IF x < 0 THEN -1 ELSE 0

RECURSIVE GCD(_, _)
GCD(a, b) == IF b = 0 THEN a ELSE GCD(b, a % b)

Norm(n, d) ==
    IF d = 0 THEN [n |-> Sign(n), d |-> 0]
    ELSE LET g == GCD(Abs(n), Abs(d))
         IN  [n |-> (Sign(d) * n) \div g, d |-> Abs(d) \div g]

Num(k) == [n |-> k, d |-> 1]

Frac(n, d) == Norm(n, d)

NaN == [n |-> 0, d |-> 0]

Infinity == [n |-> 1, d |-> 0]

NegInfinity == [n |-> -1, d |-> 0]

IsNaN(a) == a.n = 0 /\ a.d = 0

IsFinite(a) == a.d # 0

Neg(a) == [n |-> -a.n, d |-> a.d]

Add(a, b) ==
    IF IsNaN(a) \/ IsNaN(b) THEN NaN
    ELSE IF a.d = 0 /\ b.d = 0 THEN (IF a.n = b.n THEN a ELSE NaN)
    ELSE IF a.d = 0 THEN a
    ELSE IF b.d = 0 THEN b
    ELSE Norm(a.n * b.d + b.n * a.d, a.d * b.d)

Sub(a, b) == Add(a, Neg(b))

Mul(a, b) ==
    IF IsNaN(a) \/ IsNaN(b) THEN NaN
    ELSE Norm(a.n * b.n, a.d * b.d)

Div(a, b) ==
    IF IsNaN(a) \/ IsNaN(b) THEN NaN
    ELSE IF b.d = 0 THEN (IF a.d = 0 THEN NaN ELSE Num(0))
    ELSE IF b.n = 0 THEN Norm(a.n, 0)
    ELSE Norm(a.n * b.d * Sign(b.n), a.d * Abs(b.n))

GT(a, b) ==
    IF IsNaN(a) \/ IsNaN(b) THEN FALSE
    ELSE IF a.d = 0 /\ b.d = 0 THEN a.n > b.n
    ELSE a.n * b.d > b.n * a.d

LT(a, b) == GT(b, a)

GE(a, b) == ~IsNaN(a) /\ ~IsNaN(b) /\ ~GT(b, a)

LE(a, b) == GE(b, a)

\* Math.max(a, b)
Max(a, b) ==
    IF IsNaN(a) \/ IsNaN(b) THEN NaN
    ELSE IF GT(a, b) THEN a ELSE b

\* Math.min(a, b)
Min(a, b) ==
    IF IsNaN(a) \/ IsNaN(b) THEN NaN
    ELSE IF LT(a, b) THEN a ELSE b

\* a || b on numbers: 0 and NaN are falsy
OrElse(a, b) == IF a.n # 0 THEN a ELSE b

Pow10(k) == IF k = 0 THEN 1 ELSE IF k = 1 THEN 10 ELSE 100

\* Number.prototype.toFixed(k): the nearest multiple of 10^-k, ties away from
\* zero; non-finite values print as themselves
toFixed(a, k) ==
    IF a.d = 0 THEN a
    ELSE LET m == (2 * Abs(a.n) * Pow10(k) + a.d) \div (2 * a.d)
         IN  Norm(Sign(a.n) * m, Pow10(k))

(***************************************************************************)
(* Recommendation generator (EnerShiftDashboard.tsx)                       *)
(***************************************************************************)
\* recs.push(r) under an if: the rule contributes zero or one entry
pushIf(cond, rec) == IF cond THEN <<rec>> ELSE <<>>

solarRule(energyData, battery, currentHour) ==
    LET isDaytime == currentHour >= 6 /\ currentHour <= 18
    IN  pushIf(GT(energyData.solar.current, Num(5)) /\ LT(battery.percentage, Num(50)),
               [type |-> "solar", priority |-> "critical",
                message |-> <<"Excellent solar conditions detected">>,
                action |-> "Maximize solar charging immediately",
                timeframe |-> IF isDaytime THEN "Next 2-4 hours" ELSE "Tomorrow 10AM-2PM",
                impact |-> 85, confidence |-> 92])

windRule(energyData, battery) ==
    pushIf(GT(energyData.wind.current, Num(5)) /\ LT(battery.percentage, Num(70)),
           [type |-> "wind", priority |-> "high",
            message |-> <<"Strong wind speeds available">>,
            action |-> "Activate wind turbine charging",
            timeframe |-> "Next 6 hours",
            impact |-> 70, confidence |-> 88])

economicRule(energyData, costAnalysis) ==
    LET savings == Mul(Mul(Add(energyData.solar.average, energyData.wind.average),
                           costAnalysis.gridCost), Frac(8, 10))
    IN  pushIf(GT(energyData.solar.average, Num(4)) /\ GT(energyData.wind.average, Num(3)),
               [type |-> "economic", priority |-> "medium",
                message |-> <<"Potential daily savings: Rs", toFixed(savings, 0)>>,
                action |-> "Optimize renewable mix for maximum ROI",
                timeframe |-> "Daily optimization",
                impact |-> 60, confidence |-> 85])

environmentalRule(energyConsumption) ==
    LET carbonReduction == Div(Mul(energyConsumption.dailyDemand, Frac(82, 100)), Num(1000))
    IN  pushIf(GT(carbonReduction, Frac(5, 10)),
               [type |-> "environmental", priority |-> "medium",
                message |-> <<"Reduce ", toFixed(carbonReduction, 1), "kg CO2 daily">>,
                action |-> "Switch to 100% renewable energy",
                timeframe |-> "Continuous",
                impact |-> 90, confidence |-> 95])

\* batteryRule with the threshold included: percentage <= 20
batteryRuleInclusive(battery) ==
    pushIf(LE(battery.percentage, Num(20)),
           [type |-> "battery", priority |-> "critical",
            message |-> <<"Critical battery level detected">>,
            action |-> "Switch to grid backup immediately",
            timeframe |-> "Immediate",
            impact |-> 100, confidence |-> 100])

batteryRule(battery) ==
    pushIf(LT(battery.percentage, Num(20)),
           [type |-> "battery", priority |-> "critical",
            message |-> <<"Critical battery level detected">>,
            action |-> "Switch to grid backup immediately",
            timeframe |-> "Immediate",
            impact |-> 100, confidence |-> 100])

\* gridRule asking for either source to be low
gridRuleEither(energyData) ==
    pushIf(LT(energyData.solar.current, Num(3)) \/ LT(energyData.wind.current, Num(3)),
           [type |-> "grid", priority |-> "high",
            message |-> <<"Low renewable availability">>,
            action |-> "Use grid power during off-peak hours",
            timeframe |-> "Next 12 hours",
            impact |-> 45, confidence |-> 80])

gridRule(energyData) ==
    pushIf(LT(energyData.solar.current, Num(3)) /\ LT(energyData.wind.current, Num(3)),
           [type |-> "grid", priority |-> "high",
            message |-> <<"Low renewable availability">>,
            action |-> "Use grid power during off-peak hours",
            timeframe |-> "Next 12 hours",
            impact |-> 45, confidence |-> 80])

\* generateRecommendations with the critical entries pushed first
generateRecommendationsCriticalFirst(energyData, battery, energyConsumption, costAnalysis, currentHour) ==
    solarRule(energyData, battery, currentHour)
        \o batteryRule(battery)
        \o windRule(energyData, battery)
        \o gridRule(energyData)
        \o economicRule(energyData, costAnalysis)
        \o environmentalRule(energyConsumption)

\* The list handed to setRecommendations; currentHour is new Date().getHours()
generateRecommendations(energyData, battery, energyConsumption, costAnalysis, currentHour) ==
    solarRule(energyData, battery, currentHour)
        \o windRule(energyData, battery)
        \o economicRule(energyData, costAnalysis)
        \o environmentalRule(energyConsumption)
        \o batteryRule(battery)
        \o gridRule(energyData)

(***************************************************************************)
(* Feasibility scorer (EnerShiftDashboard.tsx)                             *)
(***************************************************************************)
\* solarScoring with the upper threshold included: average >= 6
solarScoringInclusive(solar) ==
    IF GE(solar.average, Num(6)) THEN [pts |-> 40, tag |-> "excellent solar availability"]
    ELSE IF GT(solar.average, Num(4)) THEN [pts |-> 25, tag |-> "good solar potential"]
    ELSE [pts |-> 10, tag |-> "limited solar resources"]

solarScoring(solar) ==
    IF GT(solar.average, Num(6)) THEN [pts |-> 40, tag |-> "excellent solar availability"]
    ELSE IF GT(solar.average, Num(4)) THEN [pts |-> 25, tag |-> "good solar potential"]
    ELSE [pts |-> 10, tag |-> "limited solar resources"]

\* windScoring whose lowest band adds 15 points
windScoringHighFloor(wind) ==
    IF GT(wind.average, Num(5)) THEN [pts |-> 30, tag |-> "strong wind resources"]
    ELSE IF GT(wind.average, Num(3)) THEN [pts |-> 20, tag |-> "moderate wind potential"]
    ELSE [pts |-> 15, tag |-> "low wind availability"]

windScoring(wind) ==
    IF GT(wind.average, Num(5)) THEN [pts |-> 30, tag |-> "strong wind resources"]
    ELSE IF GT(wind.average, Num(3)) THEN [pts |-> 20, tag |-> "moderate wind potential"]
    ELSE [pts |-> 5, tag |-> "low wind availability"]

\* batteryScoring whose lowest band adds no points
batteryScoringNoFloor(battery) ==
    IF GT(battery.runtime, Num(12)) THEN [pts |-> 20, tag |-> "sufficient battery capacity"]
    ELSE IF GT(battery.runtime, Num(6)) THEN [pts |-> 15, tag |-> "adequate battery runtime"]
    ELSE [pts |-> 0, tag |-> "limited battery capacity"]

batteryScoring(battery) ==
    IF GT(battery.runtime, Num(12)) THEN [pts |-> 20, tag |-> "sufficient battery capacity"]
    ELSE IF GT(battery.runtime, Num(6)) THEN [pts |-> 15, tag |-> "adequate battery runtime"]
    ELSE [pts |-> 5, tag |-> "limited battery capacity"]

reliabilityScoring(solar, wind) ==
    IF GT(solar.peak, Num(7)) \/ GT(wind.peak, Num(6))
    THEN [pts |-> 10, tags |-> <<"reliable energy peaks">>]
    ELSE [pts |-> 0, tags |-> <<>>]

\* determineStatus with a strict upper threshold: score > 80
determineStatusStrict(score) ==
    IF score > 80 THEN [status |-> "optimal", icon |-> "CheckCircle"]
    ELSE IF score >= 60 THEN [status |-> "moderate", icon |-> "AlertTriangle"]
    ELSE [status |-> "not-recommended", icon |-> "XCircle"]

determineStatus(score) ==
    IF score >= 80 THEN [status |-> "optimal", icon |-> "CheckCircle"]
    ELSE IF score >= 60 THEN [status |-> "moderate", icon |-> "AlertTriangle"]
    ELSE [status |-> "not-recommended", icon |-> "XCircle"]

\* reasons.join(', '): the tags with the separator between neighbours
RECURSIVE join(_, _)
join(reasons, sep) ==
    IF Len(reasons) = 0 THEN <<>>
    ELSE IF Len(reasons) = 1 THEN reasons
    ELSE <<Head(reasons), sep>> \o join(Tail(reasons), sep)

\* The record handed to setFeasibility
calculateFeasibility(energyData, battery) ==
    LET s == solarScoring(energyData.solar)
        w == windScoring(energyData.wind)
        b == batteryScoring(battery)
        r == reliabilityScoring(energyData.solar, energyData.wind)
        score == s.pts + w.pts + b.pts + r.pts
        reasons == <<s.tag, w.tag, b.tag>> \o r.tags
        st == determineStatus(score)
    IN  [status |-> st.status, score |-> score, reason |-> join(reasons, ", "), icon |-> st.icon]

(***************************************************************************)
(* Cost and carbon projection (EnhancedFeatures.tsx)                       *)
(***************************************************************************)
systemCost == 80000

dailyRenewableGeneration(energyData) ==
    Mul(Add(energyData.solar.average, energyData.wind.average), Frac(8, 10))

\* paybackPeriodOf without the guard
paybackPeriodUnguarded(annualSavings) == Div(Num(systemCost), annualSavings)

paybackPeriodOf(annualSavings) ==
    IF GT(annualSavings, Num(0)) THEN Div(Num(systemCost), annualSavings) ELSE Num(0)

\* costProjection without Math.max(0, ...) around the grid usage
costProjectionUnclamped(energyData, energyConsumption, costAnalysis, prev) ==
    LET dailyGridUsage == Sub(energyConsumption.dailyDemand,
                              dailyRenewableGeneration(energyData))
        dailySavings == Mul(Sub(energyConsumption.dailyDemand, dailyGridUsage),
                            costAnalysis.gridCost)
        annualSavings == Mul(dailySavings, Num(365))
    IN  [prev EXCEPT !.renewableSavings = dailySavings,
                     !.annualSavings = annualSavings,
                     !.paybackPeriod = paybackPeriodOf(annualSavings)]

\* setCostAnalysis(prev => ({...prev, renewableSavings, annualSavings, paybackPeriod}));
\* gridCost is read from the rendered costAnalysis, prev is the stored one
costProjection(energyData, energyConsumption, costAnalysis, prev) ==
    LET dailyGridUsage == Max(Num(0), Sub(energyConsumption.dailyDemand,
                                          dailyRenewableGeneration(energyData)))
        dailySavings == Mul(Sub(energyConsumption.dailyDemand, dailyGridUsage),
                            costAnalysis.gridCost)
        annualSavings == Mul(dailySavings, Num(365))
    IN  [prev EXCEPT !.renewableSavings = dailySavings,
                     !.annualSavings = annualSavings,
                     !.paybackPeriod = paybackPeriodOf(annualSavings)]

\* the record handed to setCarbonFootprint
carbonProjection(energyData, energyConsumption) ==
    LET currentEmissions == Mul(energyConsumption.dailyDemand, Frac(82, 100))
        renewableReduction == Mul(dailyRenewableGeneration(energyData), Frac(82, 100))
        annualCarbonSavings == Mul(renewableReduction, Num(365))
    IN  [currentEmissions |-> currentEmissions,
         renewableReduction |-> renewableReduction,
         annualSavings |-> annualCarbonSavings,
         treesEquivalent |-> Div(annualCarbonSavings, Num(22))]

\* "Reduce carbon footprint by ...% daily":
\* ((renewableReduction / currentEmissions) * 100).toFixed(0)
carbonReductionPercent(carbonFootprint) ==
    toFixed(Mul(Div(carbonFootprint.renewableReduction, carbonFootprint.currentEmissions),
                Num(100)), 0)

\* The Grid Independence badge:
\* energyData ? Math.min(100, (solar.average + wind.average) / dailyDemand * 100).toFixed(0) : 0
gridIndependence(energyData, energyConsumption) ==
    IF energyData # NULL
    THEN toFixed(Min(Num(100),
                     Mul(Div(Add(energyData.solar.average, energyData.wind.average),
                             energyConsumption.dailyDemand), Num(100))), 0)
    ELSE Num(0)

(***************************************************************************)
(* Appliance edits and weather (EnhancedFeatures.tsx)                      *)
(***************************************************************************)
defaultAppliance == [name |-> "New Appliance", power |-> Num(1), hours |-> Num(4)]

\* setEnergyConsumption(prev => ({...prev, appliances: [...prev.appliances, {...}]}))
addAppliance(prev) == [prev EXCEPT !.appliances = Append(@, defaultAppliance)]

\* updateAppliance writing the value into every entry
updateApplianceAll(prev, index, field, value) ==
    LET apps == prev.appliances
    IN  [prev EXCEPT !.appliances =
            [i \in 1..Len(apps) |-> [apps[i] EXCEPT ![field] = value]]]

\* prev.appliances.map((appliance, i) => i === index ? {...appliance, [field]: value}
\* : appliance); index counts from 0
updateAppliance(prev, index, field, value) ==
    LET apps == prev.appliances
    IN  [prev EXCEPT !.appliances =
            [i \in 1..Len(apps) |->
                IF i - 1 = index THEN [apps[i] EXCEPT ![field] = value] ELSE apps[i]]]

\* removeAppliance dropping the last entry whatever the index
removeAppliancePop(prev, index) ==
    LET apps == prev.appliances
    IN  IF index \in 0..(Len(apps) - 1)
        THEN [prev EXCEPT !.appliances = SubSeq(apps, 1, Len(apps) - 1)]
        ELSE prev

\* prev.appliances.filter((_, i) => i !== index); index counts from 0
removeAppliance(prev, index) ==
    LET apps == prev.appliances
    IN  IF index \in 0..(Len(apps) - 1)
        THEN [prev EXCEPT !.appliances =
                 [i \in 1..(Len(apps) - 1) |-> IF i - 1 < index THEN apps[i] ELSE apps[i + 1]]]
        ELSE prev

\* the record of fetchWeatherData's catch block
fallbackWeather ==
    [temperature |-> Num(28), humidity |-> Num(65), clouds |-> Num(30),
     condition |-> "Partly Cloudy"]

\* setWeatherData of the try block, from the body of an OK response
liveWeather(data) ==
    [temperature |-> data.main.temp, humidity |-> data.main.humidity,
     clouds |-> data.clouds.all, condition |-> data.weather[1].main]

(***************************************************************************)
(* Energy data acquisition (EnerShiftDashboard.tsx, fetchEnergyData)       *)
(***************************************************************************)
RECURSIVE sumOf(_)
sumOf(values) == IF Len(values) = 0 THEN Num(0) ELSE Add(Head(values), sumOf(Tail(values)))

\* Math.max(...values); -Infinity for no arguments
RECURSIVE maxOf(_)
maxOf(values) == IF Len(values) = 0 THEN NegInfinity ELSE Max(Head(values), maxOf(Tail(values)))

\* entries.slice(-7)
lastSeven(values) ==
    IF Len(values) <= 7 THEN values ELSE SubSeq(values, Len(values) - 6, Len(values))

\* values[values.length - 1] || 0, sum / length || 0, Math.max(...values) || 0
processSeries(values) ==
    [current |-> IF Len(values) = 0 THEN Num(0) ELSE OrElse(values[Len(values)], Num(0)),
     average |-> OrElse(Div(sumOf(values), Num(Len(values))), Num(0)),
     peak    |-> OrElse(maxOf(values), Num(0)),
     data    |-> lastSeven(values)]

liveEnergyData(solarValues, windValues) ==
    [solar |-> processSeries(solarValues), wind |-> processSeries(windValues)]

fallbackEnergyData ==
    [solar |-> [current |-> Frac(42, 10), average |-> Frac(51, 10), peak |-> Frac(83, 10),
                data |-> <<Frac(42, 10), Frac(58, 10), Frac(61, 10), Frac(39, 10),
                           Frac(72, 10), Frac(81, 10), Frac(54, 10)>>],
     wind  |-> [current |-> Frac(38, 10), average |-> Frac(42, 10), peak |-> Frac(79, 10),
                data |-> <<Frac(38, 10), Frac(45, 10), Frac(29, 10), Frac(52, 10),
                           Frac(68, 10), Frac(41, 10), Frac(33, 10)>>]]

(***************************************************************************)
(* Battery effect (EnerShiftDashboard.tsx)                                 *)
(***************************************************************************)
\* batteryEffect without the || 5 on the divisor
batteryEffectNoFallback(battery, energyData, prev) ==
    LET percentage == Mul(Div(battery.currentCharge, battery.capacity), Num(100))
        averageDemand == IF energyData # NULL
                         THEN Div(Add(energyData.solar.average, energyData.wind.average), Num(2))
                         ELSE Num(5)
        runtime == Div(battery.currentCharge, averageDemand)
    IN  [prev EXCEPT !.percentage = percentage, !.runtime = runtime]

\* setBattery(prev => ({...prev, percentage, runtime})); battery and energyData are
\* the rendered values, prev the stored battery
batteryEffect(battery, energyData, prev) ==
    LET percentage == Mul(Div(battery.currentCharge, battery.capacity), Num(100))
        averageDemand == IF energyData # NULL
                         THEN Div(Add(energyData.solar.average, energyData.wind.average), Num(2))
                         ELSE Num(5)
        runtime == Div(battery.currentCharge, OrElse(averageDemand, Num(5)))
    IN  [prev EXCEPT !.percentage = percentage, !.runtime = runtime]

(***************************************************************************)
(* Scoring effect and state setters (EnerShiftDashboard.tsx)               *)
(***************************************************************************)
\* the scoring effect with a default result in place of no result
scoringEffectDefaultResult(energyData, battery, location, prev) ==
    IF energyData # NULL /\ location # NULL THEN calculateFeasibility(energyData, battery)
    ELSE [status |-> "not-recommended", score |-> 0, reason |-> <<>>, icon |-> "XCircle"]

\* The scoring effect's feasibility: if (energyData && location) calculateFeasibility()
scoringEffect(energyData, battery, location, prev) ==
    IF energyData # NULL /\ location # NULL THEN calculateFeasibility(energyData, battery)
    ELSE prev

\* setRecommendations appending to the stored list
setRecommendationsAppend(prev, recs) == prev \o recs

\* setRecommendations(recs): the stored list is the one handed over
setRecommendations(prev, recs) == recs

\* the battery effect listing battery itself as a dependency
effectsAfterSetBatteryItself(ranBattery) ==
    IF ranBattery THEN {"battery", "scoring", "metrics"} ELSE {}

\* setBattery whose result the dependency comparison takes for the old battery
effectsAfterSetBatteryNone(ranBattery) == {}

\* setBattery stores a new object, so the effects that list battery as a dependency
\* run again; the battery effect itself lists capacity and currentCharge only
effectsAfterSetBattery(ranBattery) == IF ranBattery THEN {"scoring", "metrics"} ELSE {}

(***************************************************************************)
(* Bounds and input domains                                                *)
(***************************************************************************)
\* longest daily series an API response carries
MaxSeries == 2

\* daily values of a response: on and above the scoring thresholds
SeriesValues == {Num(3), Num(7)}

Series == UNION {[1..n -> SeriesValues] : n \in 0..MaxSeries}

\* new Date().getHours() around the two ends of the daytime window
Hours == {5, 6, 18, 19}

\* Number(e.target.value) of the battery inputs ("" reads as 0)
CapacityInputs == {Num(0), Num(100)}

ChargeInputs == {Num(10), Num(50)}

\* Number(e.target.value) of the EnhancedFeatures inputs
DemandInputs == {Num(0), Num(700)}

GridCostInputs == {Num(0), Num(10)}

\* the position reported by the browser or by the IP lookup
Position == [latitude |-> Num(13), longitude |-> Num(13)]

\* reverse-geocoding answers: some fields present, some missing
GeoResponses == {[city |-> "Chennai", principalSubdivision |-> "", countryName |-> "India"]}

\* bodies of OK answers of the weather service
WeatherResponses ==
    {[main |-> [temp |-> Num(31), humidity |-> Num(70)], clouds |-> [all |-> Num(10)],
      weather |-> <<[main |-> "Clear"]>>]}

\* most appliance edits followed in one run
MaxEdits == 2

\* most weather requests in flight at once
MaxWeatherRequests == 2

\* what the user types into an appliance row
ApplianceNames == {"Fan"}

AppliancePowers == {Num(3)}

ApplianceHours == {Num(1)}

\* text typed into the manual coordinate fields
ManualInputs == {"", "abc", "13", "13abc"}

(***************************************************************************)
(* State                                                                   *)
(***************************************************************************)
VARIABLES
    location,             \* useState<LocationData | null>
    energyData,           \* useState<EnergyData | null>
    battery,              \* useState<BatteryState>
    recommendations,      \* useState<EnhancedRecommendation[]>
    feasibility,          \* useState<FeasibilityResult | null>
    loading,              \* useState(false)
    notification,         \* title of the toast shown last ("" before the first)
    energyConsumption,    \* the dashboard's own consumption profile
    costAnalysis,         \* the dashboard's own cost analysis
    ef_energyConsumption, \* EnhancedFeatures: useState<EnergyConsumption>
    ef_costAnalysis,      \* EnhancedFeatures: useState<CostAnalysis>
    ef_carbonFootprint,   \* EnhancedFeatures: useState<CarbonFootprint>
    weatherData,          \* EnhancedFeatures: useState<WeatherData | null>
    weatherRequests,      \* EnhancedFeatures: weather requests in flight
    edits,                \* EnhancedFeatures: appliance edits made so far
    pending,              \* effects whose dependencies changed and that have not run yet
    chains,               \* location/energy acquisitions in flight, by awaited step
    ran                   \* history: the computations that have run at least once

dashVars == <<location, energyData, battery, recommendations, feasibility, loading,
              notification, energyConsumption, costAnalysis>>

weatherVars == <<weatherData, weatherRequests>>

featureVars == <<weatherVars, edits>>

efVars == <<ef_energyConsumption, ef_costAnalysis, ef_carbonFootprint, featureVars>>

vars == <<dashVars, efVars, pending, chains, ran>>

initialBattery ==
    [capacity |-> Num(100), currentCharge |-> Num(75), percentage |-> Num(75), runtime |-> Num(0)]

\* initialConsumption with a daily demand the environmental rule fires on
initialConsumptionHighDemand ==
    [dailyDemand |-> Num(700), peakHours |-> "18:00-22:00",
     appliances |-> <<[name |-> "LED Lights", power |-> Frac(5, 10), hours |-> Num(8)],
                      [name |-> "Refrigerator", power |-> Frac(12, 10), hours |-> Num(24)],
                      [name |-> "Mobile Charging", power |-> Frac(1, 10), hours |-> Num(4)]>>]

initialConsumption ==
    [dailyDemand |-> Num(25), peakHours |-> "18:00-22:00",
     appliances |-> <<[name |-> "LED Lights", power |-> Frac(5, 10), hours |-> Num(8)],
                      [name |-> "Refrigerator", power |-> Frac(12, 10), hours |-> Num(24)],
                      [name |-> "Mobile Charging", power |-> Frac(1, 10), hours |-> Num(4)]>>]

ef_initialConsumption ==
    [initialConsumption EXCEPT !.appliances =
        @ \o <<[name |-> "Water Pump", power |-> Num(2), hours |-> Num(2)],
               [name |-> "TV", power |-> Frac(8, 10), hours |-> Num(6)]>>]

initialCostAnalysis ==
    [gridCost |-> Frac(85, 10), renewableSavings |-> Num(0), paybackPeriod |-> Num(0),
     annualSavings |-> Num(0)]

initialCarbonFootprint ==
    [currentEmissions |-> Num(0), renewableReduction |-> Num(0), annualSavings |-> Num(0),
     treesEquivalent |-> Num(0)]

\* The components as constructed, before the mount effects have run
Init ==
    /\ location = NULL
    /\ energyData = NULL
    /\ battery = initialBattery
    /\ recommendations = <<>>
    /\ feasibility = NULL
    /\ loading = FALSE
    /\ notification = ""
    /\ energyConsumption = initialConsumption
    /\ costAnalysis = initialCostAnalysis
    /\ ef_energyConsumption = ef_initialConsumption
    /\ ef_costAnalysis = initialCostAnalysis
    /\ ef_carbonFootprint = initialCarbonFootprint
    /\ weatherData = NULL
    /\ weatherRequests = 0
    /\ edits = 0
    /\ pending = {"mount", "battery", "scoring", "metrics"}
    /\ chains = {}
    /\ ran = {}

(***************************************************************************)
(* Effects                                                                 *)
(***************************************************************************)
awaiting(step, lat, lon) == [step |-> step, lat |-> lat, lon |-> lon]

\* detectLocation: geolocation when the browser has it, else the IP lookup
detectLocation(geolocation) ==
    IF geolocation THEN awaiting("geolocation", NaN, NaN) ELSE awaiting("ipapi", NaN, NaN)

\* One commit: every effect whose dependencies changed runs on the rendered state;
\* EnhancedFeatures (child) first, then the dashboard's effects in declaration
\* order.  Their state updates are applied together afterwards.  The weather request
\* the metrics effect also issues writes weatherData only, which nothing here reads:
\* it is followed in FeaturesEffect, where the component stands on its own.
FlushEffects ==
    LET runMount   == "mount" \in pending
        runBattery == "battery" \in pending
        runScoring == "scoring" \in pending /\ energyData # NULL /\ location # NULL
        runMetrics == "metrics" \in pending /\ energyData # NULL
    IN  /\ pending # {}
        /\ ef_costAnalysis' =
             IF runMetrics
             THEN costProjection(energyData, ef_energyConsumption, ef_costAnalysis,
                                 ef_costAnalysis)
             ELSE ef_costAnalysis
        /\ ef_carbonFootprint' =
             IF runMetrics THEN carbonProjection(energyData, ef_energyConsumption)
             ELSE ef_carbonFootprint
        /\ loading' = IF runMount THEN TRUE ELSE loading
        /\ IF runMount
           THEN \E geolocation \in BOOLEAN : chains' = chains \cup {detectLocation(geolocation)}
           ELSE chains' = chains
        /\ battery' = IF runBattery THEN batteryEffect(battery, energyData, battery)
                      ELSE battery
        /\ IF runScoring
           THEN \E currentHour \in Hours :
                    recommendations' =
                        setRecommendations(recommendations,
                            generateRecommendations(energyData, battery, energyConsumption,
                                                    costAnalysis, currentHour))
           ELSE recommendations' = recommendations
        /\ feasibility' = IF "scoring" \in pending
                          THEN scoringEffect(energyData, battery, location, feasibility)
                          ELSE feasibility
        /\ pending' = effectsAfterSetBattery(runBattery)
        /\ ran' = ran \cup (IF runBattery THEN {"battery"} ELSE {})
                      \cup (IF runScoring THEN {"generate", "score"} ELSE {})
                      \cup (IF runMetrics THEN {"metrics"} ELSE {})
        /\ UNCHANGED <<location, energyData, notification, energyConsumption, costAnalysis,
                       ef_energyConsumption, featureVars>>

(***************************************************************************)
(* Location and energy acquisition                                         *)
(***************************************************************************)
\* getCurrentPosition's success callback: fetchLocationData(latitude, longitude)
GeolocationSuccess ==
    /\ pending = {}
    /\ \E c \in chains :
        /\ c.step = "geolocation"
        /\ chains' = (chains \ {c})
                         \cup {awaiting("reverse-geocode", Position.latitude, Position.longitude)}
    /\ UNCHANGED <<dashVars, efVars, pending, ran>>

\* getCurrentPosition's error callback: fetchIPLocation()
GeolocationError ==
    /\ pending = {}
    /\ \E c \in chains :
        /\ c.step = "geolocation"
        /\ chains' = (chains \ {c}) \cup {awaiting("ipapi", NaN, NaN)}
    /\ UNCHANGED <<dashVars, efVars, pending, ran>>

\* fetchIPLocation, the lookup answered
IPLocationSuccess ==
    /\ pending = {}
    /\ \E c \in chains :
        /\ c.step = "ipapi"
        /\ chains' = (chains \ {c})
                         \cup {awaiting("reverse-geocode", Position.latitude, Position.longitude)}
    /\ UNCHANGED <<dashVars, efVars, pending, ran>>

\* IPLocationFailure whose catch block leaves loading as it is
IPLocationFailureKeepsLoading ==
    /\ pending = {}
    /\ \E c \in chains :
        /\ c.step = "ipapi"
        /\ chains' = chains \ {c}
    /\ UNCHANGED <<dashVars, efVars, pending, ran>>

\* fetchIPLocation, catch: setLoading(false)
IPLocationFailure ==
    /\ pending = {}
    /\ \E c \in chains :
        /\ c.step = "ipapi"
        /\ chains' = chains \ {c}
    /\ loading' = FALSE
    /\ UNCHANGED <<location, energyData, battery, recommendations, feasibility, notification,
                   energyConsumption, costAnalysis, efVars, pending, ran>>

orUnknown(s) == IF s = "" THEN "Unknown" ELSE s

\* ReverseGeocodeSuccess going on to fetchEnergyData without setLocation
ReverseGeocodeSuccessNoLocation ==
    /\ pending = {}
    /\ \E c \in chains :
        /\ c.step = "reverse-geocode"
        /\ chains' = (chains \ {c}) \cup {awaiting("power-api", c.lat, c.lon)}
    /\ UNCHANGED <<dashVars, efVars, pending, ran>>

\* fetchLocationData, reverse geocoding answered: setLocation, then fetchEnergyData
ReverseGeocodeSuccess ==
    /\ pending = {}
    /\ \E c \in chains, geoData \in GeoResponses :
        /\ c.step = "reverse-geocode"
        /\ location' = [latitude |-> c.lat, longitude |-> c.lon,
                        city |-> orUnknown(geoData.city),
                        region |-> orUnknown(geoData.principalSubdivision),
                        country |-> orUnknown(geoData.countryName)]
        /\ chains' = (chains \ {c}) \cup {awaiting("power-api", c.lat, c.lon)}
    /\ pending' = {"scoring"}
    /\ UNCHANGED <<energyData, battery, recommendations, feasibility, loading, notification,
                   energyConsumption, costAnalysis, efVars, ran>>

\* fetchLocationData, catch: the toast; finally: setLoading(false)
ReverseGeocodeFailure ==
    /\ pending = {}
    /\ \E c \in chains :
        /\ c.step = "reverse-geocode"
        /\ chains' = chains \ {c}
    /\ loading' = FALSE
    /\ notification' = "Failed to fetch location data"
    /\ UNCHANGED <<location, energyData, battery, recommendations, feasibility,
                   energyConsumption, costAnalysis, efVars, pending, ran>>

\* fetchEnergyData, both responses parsed: setEnergyData and the toast; back in
\* fetchLocationData, finally: setLoading(false)
EnergyFetchSuccess ==
    /\ pending = {}
    /\ \E c \in chains, solarValues \in Series, windValues \in Series :
        /\ c.step = "power-api"
        /\ energyData' = liveEnergyData(solarValues, windValues)
        /\ chains' = chains \ {c}
    /\ loading' = FALSE
    /\ notification' = "Energy Data Updated"
    /\ pending' = {"battery", "scoring", "metrics"}
    /\ UNCHANGED <<location, battery, recommendations, feasibility,
                   energyConsumption, costAnalysis, efVars, ran>>

\* EnergyFetchFailure with the catch block storing nothing
EnergyFetchFailureNoFallback ==
    /\ pending = {}
    /\ \E c \in chains :
        /\ c.step = "power-api"
        /\ chains' = chains \ {c}
    /\ loading' = FALSE
    /\ notification' = "Failed to fetch energy data"
    /\ UNCHANGED <<location, energyData, battery, recommendations, feasibility,
                   energyConsumption, costAnalysis, efVars, pending, ran>>

\* fetchEnergyData, catch: the toast and the fallback data; the await in
\* fetchLocationData returns normally, finally: setLoading(false)
EnergyFetchFailure ==
    /\ pending = {}
    /\ \E c \in chains :
        /\ c.step = "power-api"
        /\ chains' = chains \ {c}
    /\ energyData' = fallbackEnergyData
    /\ loading' = FALSE
    /\ notification' = "Failed to fetch energy data"
    /\ pending' = {"battery", "scoring", "metrics"}
    /\ UNCHANGED <<location, battery, recommendations, feasibility,
                   energyConsumption, costAnalysis, efVars, ran>>

\* parseFloat reading text the way Number does: the empty text is 0
parseFloatEmptyIsZero(s) ==
    CASE s = "13" -> Num(13)
      [] s = "" -> Num(0)
      [] OTHER -> NaN

\* parseFloat: the number the text starts with, NaN when it starts with none
parseFloat(s) ==
    CASE s = "13" -> Num(13)
      [] s = "13abc" -> Num(13)
      [] OTHER -> NaN

\* handleManualLocation on the text of the two fields
handleManualLocation(latText, lonText) ==
    LET lat == parseFloat(latText)
        lon == parseFloat(lonText)
    IN  /\ IF IsNaN(lat) \/ IsNaN(lon)
           THEN /\ notification' = "Invalid Coordinates"
                /\ UNCHANGED <<loading, chains>>
           ELSE /\ loading' = TRUE
                /\ chains' = chains \cup {awaiting("reverse-geocode", lat, lon)}
                /\ UNCHANGED notification
        /\ UNCHANGED <<location, energyData, battery, recommendations, feasibility,
                       energyConsumption, costAnalysis, efVars, pending, ran>>

\* HandleManualLocation with a button that stays enabled while loading
HandleManualLocationWhileLoading ==
    /\ pending = {}
    /\ location = NULL
    /\ \E latText \in ManualInputs, lonText \in ManualInputs :
        handleManualLocation(latText, lonText)

\* HandleManualLocation with a form that stays on the page once location is set
HandleManualLocationAnytime ==
    /\ pending = {}
    /\ ~loading
    /\ \E latText \in ManualInputs, lonText \in ManualInputs :
        handleManualLocation(latText, lonText)

\* The Fetch Data button; the form is rendered while location is null and its
\* button is disabled while loading
HandleManualLocation ==
    /\ pending = {}
    /\ location = NULL
    /\ ~loading
    /\ \E latText \in ManualInputs, lonText \in ManualInputs :
        handleManualLocation(latText, lonText)

(***************************************************************************)
(* User input                                                              *)
(***************************************************************************)
\* Capacity input: setBattery(prev => ({...prev, capacity: Number(e.target.value)}))
SetCapacity ==
    /\ pending = {}
    /\ \E v \in CapacityInputs :
        /\ v # battery.capacity
        /\ battery' = [battery EXCEPT !.capacity = v]
    /\ pending' = {"battery", "scoring", "metrics"}
    /\ UNCHANGED <<location, energyData, recommendations, feasibility, loading, notification,
                   energyConsumption, costAnalysis, efVars, chains, ran>>

\* Current Charge input
SetCurrentCharge ==
    /\ pending = {}
    /\ \E v \in ChargeInputs :
        /\ v # battery.currentCharge
        /\ battery' = [battery EXCEPT !.currentCharge = v]
    /\ pending' = {"battery", "scoring", "metrics"}
    /\ UNCHANGED <<location, energyData, recommendations, feasibility, loading, notification,
                   energyConsumption, costAnalysis, efVars, chains, ran>>

\* EnhancedFeatures, Daily Energy Demand input
SetDailyDemand ==
    /\ pending = {}
    /\ \E v \in DemandInputs :
        /\ v # ef_energyConsumption.dailyDemand
        /\ ef_energyConsumption' = [ef_energyConsumption EXCEPT !.dailyDemand = v]
    /\ pending' = {"metrics"}
    /\ UNCHANGED <<dashVars, ef_costAnalysis, ef_carbonFootprint, featureVars, chains, ran>>

\* EnhancedFeatures, Grid Cost input; no effect lists costAnalysis as a dependency
SetGridCost ==
    /\ pending = {}
    /\ \E v \in GridCostInputs :
        /\ v # ef_costAnalysis.gridCost
        /\ ef_costAnalysis' = [ef_costAnalysis EXCEPT !.gridCost = v]
    /\ UNCHANGED <<dashVars, ef_energyConsumption, ef_carbonFootprint, featureVars, pending,
                   chains, ran>>

Next ==
    \/ FlushEffects
    \/ GeolocationSuccess
    \/ GeolocationError
    \/ IPLocationSuccess
    \/ IPLocationFailure
    \/ ReverseGeocodeSuccess
    \/ ReverseGeocodeFailure
    \/ EnergyFetchSuccess
    \/ EnergyFetchFailure
    \/ HandleManualLocation
    \/ SetCapacity
    \/ SetCurrentCharge
    \/ SetDailyDemand
    \/ SetGridCost

Spec == Init /\ [][Next]_vars

\* The steps of FlushEffects as seen on pending alone: from a state with effects
\* pending, every step that changes pending is one of FlushEffects, and every step of
\* FlushEffects changes pending.
EffectsRun ==
    /\ pending # {}
    /\ pending' \in SUBSET {"scoring", "metrics"}
    /\ pending' # pending

\* What the runtime guarantees: the effects of a commit run, and every request or
\* callback in flight settles, one way or the other.  A settled request waits only
\* for the commit in progress, so the user's edits cannot hold it off for ever: its
\* fairness is strong.  Nothing obliges the user to act.
Fairness ==
    /\ WF_pending(EffectsRun)
    /\ SF_vars(GeolocationSuccess \/ GeolocationError)
    /\ SF_vars(IPLocationSuccess \/ IPLocationFailure)
    /\ SF_vars(ReverseGeocodeSuccess \/ ReverseGeocodeFailure)
    /\ SF_vars(EnergyFetchSuccess \/ EnergyFetchFailure)

SpecLive == Spec /\ Fairness

(***************************************************************************)
(* The engine on its own: the three computations applied to drawn inputs   *)
(***************************************************************************)
snapshot(sc, sa, sp, wc, wa, wp) ==
    [solar |-> [current |-> sc, average |-> sa, peak |-> sp, data |-> <<>>],
     wind  |-> [current |-> wc, average |-> wa, peak |-> wp, data |-> <<>>]]

\* a 100 kWh battery charged to the given percentage, with the given runtime
batteryWith(percentage, runtime) ==
    [capacity |-> Num(100), currentCharge |-> percentage, percentage |-> percentage,
     runtime |-> runtime]

\* values below, on and above each threshold of the rules and bands
SolarCurrents == {Num(2), Num(3), Num(5), Num(6)}

WindCurrents == {Num(2), Num(3), Num(5), Num(6)}

SolarAverages == {Num(3), Num(4), Num(6), Num(7)}

WindAverages == {Num(2), Num(3), Num(5), Num(6)}

SolarPeaks == {Num(0), Num(7), Num(8)}

WindPeaks == {Num(0), Num(6), Num(7)}

Percentages == {Num(10), Num(20), Num(50), Num(70)}

Runtimes == {Num(4), Num(6), Num(12), Num(14)}

\* dailyDemand around 0.5 * 1000 / 0.82 = 609.75..., and small demands
Demands == {Num(0), Num(5), Num(25), Num(609), Num(610)}

GridCosts == {Num(-1), Num(0), Frac(85, 10)}

\* inputs of generateRecommendations
GenerateInputs ==
    {[energyData |-> snapshot(sc, sa, Num(7), wc, wa, Num(6)),
      battery |-> batteryWith(pct, Num(0)),
      dailyDemand |-> dd, gridCost |-> Frac(85, 10)] :
        sc \in SolarCurrents, wc \in WindCurrents,
        sa \in {Num(4), Num(6)}, wa \in {Num(3), Num(5)},
        pct \in Percentages, dd \in {Num(25), Num(609), Num(610)}}

\* inputs of calculateFeasibility
FeasibilityInputs ==
    {[energyData |-> snapshot(Num(4), sa, sp, Num(4), wa, wp),
      battery |-> batteryWith(Num(75), rt),
      dailyDemand |-> Num(25), gridCost |-> Frac(85, 10)] :
        sa \in SolarAverages, wa \in WindAverages, sp \in SolarPeaks, wp \in WindPeaks,
        rt \in Runtimes}

\* inputs of calculateEnhancedMetrics, among them averages of fill values
MetricsInputs ==
    {[energyData |-> snapshot(Num(4), sa, Num(7), Num(4), wa, Num(6)),
      battery |-> initialBattery,
      dailyDemand |-> dd, gridCost |-> gc] :
        sa \in {Num(-999), Num(0), Num(5)}, wa \in {Num(-999), Num(0), Num(4)},
        dd \in Demands, gc \in GridCosts}

somewhere == [latitude |-> Position.latitude, longitude |-> Position.longitude,
              city |-> "Unknown", region |-> "Unknown", country |-> "Unknown"]

InitEngine ==
    \E in \in GenerateInputs \cup FeasibilityInputs \cup MetricsInputs :
        /\ location = somewhere
        /\ energyData = in.energyData
        /\ battery = in.battery
        /\ recommendations = <<>>
        /\ feasibility = NULL
        /\ loading = FALSE
        /\ notification = ""
        /\ energyConsumption = [initialConsumption EXCEPT !.dailyDemand = in.dailyDemand]
        /\ costAnalysis = [initialCostAnalysis EXCEPT !.gridCost = in.gridCost]
        /\ ef_energyConsumption = [ef_initialConsumption EXCEPT !.dailyDemand = in.dailyDemand]
        /\ ef_costAnalysis = [initialCostAnalysis EXCEPT !.gridCost = in.gridCost]
        /\ ef_carbonFootprint = initialCarbonFootprint
        /\ weatherData = NULL
        /\ weatherRequests = 0
        /\ edits = 0
        /\ pending = {}
        /\ chains = {}
        /\ ran = {}

ApplyGenerate ==
    /\ \E currentHour \in Hours :
        recommendations' = generateRecommendations(energyData, battery, energyConsumption,
                                                   costAnalysis, currentHour)
    /\ ran' = ran \cup {"generate"}
    /\ UNCHANGED <<location, energyData, battery, feasibility, loading, notification,
                   energyConsumption, costAnalysis, efVars, pending, chains>>

ApplyFeasibility ==
    /\ feasibility' = calculateFeasibility(energyData, battery)
    /\ ran' = ran \cup {"score"}
    /\ UNCHANGED <<location, energyData, battery, recommendations, loading, notification,
                   energyConsumption, costAnalysis, efVars, pending, chains>>

ApplyMetrics ==
    /\ ef_costAnalysis' = costProjection(energyData, ef_energyConsumption, ef_costAnalysis,
                                         ef_costAnalysis)
    /\ ef_carbonFootprint' = carbonProjection(energyData, ef_energyConsumption)
    /\ ran' = ran \cup {"metrics"}
    /\ UNCHANGED <<dashVars, ef_energyConsumption, featureVars, pending, chains>>

NextEngine ==
    \/ ApplyGenerate
    \/ ApplyFeasibility
    \/ ApplyMetrics

SpecEngine == InitEngine /\ [][NextEngine]_vars

(***************************************************************************)
(* EnhancedFeatures on its own: its props are drawn and stay as they are   *)
(***************************************************************************)
InitFeatures ==
    /\ location \in {NULL, somewhere}
    /\ energyData \in {NULL, fallbackEnergyData}
    /\ battery = initialBattery
    /\ recommendations = <<>>
    /\ feasibility = NULL
    /\ loading = FALSE
    /\ notification = ""
    /\ energyConsumption = initialConsumption
    /\ costAnalysis = initialCostAnalysis
    /\ ef_energyConsumption = ef_initialConsumption
    /\ ef_costAnalysis = initialCostAnalysis
    /\ ef_carbonFootprint = initialCarbonFootprint
    /\ weatherData = NULL
    /\ weatherRequests = 0
    /\ edits = 0
    /\ pending = {"metrics"}
    /\ chains = {}
    /\ ran = {}

\* fetchWeatherData up to its await: if (!location) return; otherwise one more request
fetchWeatherData == IF location # NULL THEN weatherRequests + 1 ELSE weatherRequests

\* The metrics effect: if (energyData && battery) { calculateEnhancedMetrics();
\* fetchWeatherData(); }
FeaturesEffect ==
    /\ pending # {}
    /\ IF energyData # NULL
       THEN /\ fetchWeatherData <= MaxWeatherRequests
            /\ ef_costAnalysis' = costProjection(energyData, ef_energyConsumption,
                                                 ef_costAnalysis, ef_costAnalysis)
            /\ ef_carbonFootprint' = carbonProjection(energyData, ef_energyConsumption)
            /\ weatherRequests' = fetchWeatherData
            /\ ran' = ran \cup {"metrics"}
       ELSE UNCHANGED <<ef_costAnalysis, ef_carbonFootprint, weatherRequests, ran>>
    /\ pending' = {}
    /\ UNCHANGED <<dashVars, ef_energyConsumption, weatherData, edits, chains>>

\* WeatherNotOk with the fallback record stored for a non-OK answer too
WeatherNotOkFallback ==
    /\ weatherRequests > 0
    /\ weatherRequests' = weatherRequests - 1
    /\ weatherData' = fallbackWeather
    /\ ran' = ran \cup {"weather"}
    /\ UNCHANGED <<dashVars, ef_energyConsumption, ef_costAnalysis, ef_carbonFootprint,
                   edits, pending, chains>>

\* the request answered with response.ok: setWeatherData from the body
WeatherOk ==
    /\ weatherRequests > 0
    /\ weatherRequests' = weatherRequests - 1
    /\ \E data \in WeatherResponses : weatherData' = liveWeather(data)
    /\ ran' = ran \cup {"weather"}
    /\ UNCHANGED <<dashVars, ef_energyConsumption, ef_costAnalysis, ef_carbonFootprint,
                   edits, pending, chains>>

\* the request answered without response.ok: the if is skipped, nothing is stored
WeatherNotOk ==
    /\ weatherRequests > 0
    /\ weatherRequests' = weatherRequests - 1
    /\ ran' = ran \cup {"weather"}
    /\ UNCHANGED <<dashVars, ef_energyConsumption, ef_costAnalysis, ef_carbonFootprint,
                   weatherData, edits, pending, chains>>

\* fetch rejects, or the body cannot be read: catch, setWeatherData(fallback)
WeatherThrows ==
    /\ weatherRequests > 0
    /\ weatherRequests' = weatherRequests - 1
    /\ weatherData' = fallbackWeather
    /\ ran' = ran \cup {"weather"}
    /\ UNCHANGED <<dashVars, ef_energyConsumption, ef_costAnalysis, ef_carbonFootprint,
                   edits, pending, chains>>

\* a setEnergyConsumption from an appliance control: the metrics effect is to run
editAppliances(next) ==
    /\ pending = {}
    /\ edits < MaxEdits
    /\ edits' = edits + 1
    /\ ef_energyConsumption' = next
    /\ pending' = {"metrics"}
    /\ UNCHANGED <<dashVars, ef_costAnalysis, ef_carbonFootprint, weatherVars, chains, ran>>

\* the Add Appliance button
AddAppliance == editAppliances(addAppliance(ef_energyConsumption))

\* an input of the row at index
UpdateAppliance(index, field, value) ==
    /\ index \in 0..(Len(ef_energyConsumption.appliances) - 1)
    /\ ef_energyConsumption.appliances[index + 1][field] # value
    /\ editAppliances(updateAppliance(ef_energyConsumption, index, field, value))

\* the remove button of the row at index
RemoveAppliance(index) ==
    /\ index \in 0..(Len(ef_energyConsumption.appliances) - 1)
    /\ editAppliances(removeAppliance(ef_energyConsumption, index))

\* the rows the user edits: the first two and the last
EditedRows == {0, 1, Len(ef_energyConsumption.appliances) - 1}

NextFeatures ==
    \/ FeaturesEffect
    \/ WeatherOk
    \/ WeatherNotOk
    \/ WeatherThrows
    \/ AddAppliance
    \/ \E index \in EditedRows, value \in ApplianceNames : UpdateAppliance(index, "name", value)
    \/ \E index \in EditedRows, value \in AppliancePowers : UpdateAppliance(index, "power", value)
    \/ \E index \in EditedRows, value \in ApplianceHours : UpdateAppliance(index, "hours", value)
    \/ \E index \in EditedRows : RemoveAppliance(index)
    \/ SetDailyDemand

SpecFeatures == InitFeatures /\ [][NextFeatures]_vars

(***************************************************************************)
(* Properties                                                              *)
(***************************************************************************)
\* x > k and x < k for a finite x and an integer k
above(x, k) == x.n > k * x.d

below(x, k) == x.n < k * x.d

entriesOf(recs, t) == {i \in 1..Len(recs) : recs[i].type = t}

Categories == {"solar", "wind", "economic", "environmental", "battery", "grid"}

\* the rule table of the recommendation generator
ruleHolds(t, snap, pct, dailyDemand) ==
    CASE t = "solar"         -> above(snap.solar.current, 5) /\ below(pct, 50)
      [] t = "wind"          -> above(snap.wind.current, 5) /\ below(pct, 70)
      [] t = "economic"      -> above(snap.solar.average, 4) /\ above(snap.wind.average, 3)
      [] t = "environmental" -> dailyDemand.n * 82 > 50000 * dailyDemand.d
      [] t = "battery"       -> below(pct, 20)
      [] t = "grid"          -> below(snap.solar.current, 3) /\ below(snap.wind.current, 3)

ruleAttributes(t) ==
    CASE t = "solar"         -> <<"critical", 85, 92>>
      [] t = "wind"          -> <<"high", 70, 88>>
      [] t = "economic"      -> <<"medium", 60, 85>>
      [] t = "environmental" -> <<"medium", 90, 95>>
      [] t = "battery"       -> <<"critical", 100, 100>>
      [] t = "grid"          -> <<"high", 45, 80>>

\* C1: the generated list holds an entry of a category exactly when that category's
\* rule holds on the inputs, exactly one, and with the table's priority, impact and
\* confidence; the rules fire independently of each other.
C1_RulesDecideEntries ==
    "generate" \in ran =>
        \A t \in Categories :
            /\ Cardinality(entriesOf(recommendations, t)) =
                   IF ruleHolds(t, energyData, battery.percentage, energyConsumption.dailyDemand)
                   THEN 1 ELSE 0
            /\ \A i \in entriesOf(recommendations, t) :
                   <<recommendations[i].priority, recommendations[i].impact,
                     recommendations[i].confidence>> = ruleAttributes(t)

\* five rules fire on one input (grid excludes solar and wind)
C1_Witness ==
    /\ "generate" \in ran
    /\ Len(recommendations) = 5
    /\ battery.percentage = Num(10)

expectedSolarBand(sa) ==
    IF above(sa, 6) THEN <<40, "excellent solar availability">>
    ELSE IF above(sa, 4) THEN <<25, "good solar potential">>
    ELSE <<10, "limited solar resources">>

expectedWindBand(wa) ==
    IF above(wa, 5) THEN <<30, "strong wind resources">>
    ELSE IF above(wa, 3) THEN <<20, "moderate wind potential">>
    ELSE <<5, "low wind availability">>

expectedBatteryBand(rt) ==
    IF above(rt, 12) THEN <<20, "sufficient battery capacity">>
    ELSE IF above(rt, 6) THEN <<15, "adequate battery runtime">>
    ELSE <<5, "limited battery capacity">>

expectedBonus(sp, wp) == above(sp, 7) \/ above(wp, 6)

\* C2: the score is the sum of one band per category, each decided by its own input
\* alone with strict thresholds, plus 10 when a peak is high; the reason lists the
\* fired tags in the order solar, wind, battery, peaks.
C2_ScoreIsSumOfBands ==
    "score" \in ran =>
        LET s == expectedSolarBand(energyData.solar.average)
            w == expectedWindBand(energyData.wind.average)
            b == expectedBatteryBand(battery.runtime)
            bonus == expectedBonus(energyData.solar.peak, energyData.wind.peak)
        IN  /\ feasibility.score = s[1] + w[1] + b[1] + (IF bonus THEN 10 ELSE 0)
            /\ feasibility.reason =
                   <<s[2], ", ", w[2], ", ", b[2]>>
                       \o (IF bonus THEN <<", ", "reliable energy peaks">> ELSE <<>>)
            /\ (energyData.solar.average = Num(6) => s[1] = 25)
            /\ (energyData.wind.average = Num(5) => w[1] = 20)
            /\ (battery.runtime = Num(12) => b[1] = 15)
            /\ (/\ energyData.solar.average = Num(7) /\ energyData.wind.average = Num(6)
                /\ energyData.solar.peak = Num(8) /\ energyData.wind.peak = Num(7)
                /\ battery.runtime = Num(14)
                => feasibility.score = 100)
            /\ (/\ energyData.solar.average = Num(3) /\ energyData.wind.average = Num(2)
                /\ energyData.solar.peak = Num(0) /\ energyData.wind.peak = Num(0)
                /\ battery.runtime = Num(4)
                => feasibility.score = 20)

\* an input with every category on its threshold, scored
C2_Witness ==
    /\ "score" \in ran
    /\ energyData.solar.average = Num(6)
    /\ energyData.wind.average = Num(5)
    /\ battery.runtime = Num(12)
    /\ energyData.solar.peak = Num(7)
    /\ energyData.wind.peak = Num(7)
    /\ feasibility.score = 70

\* C3: a stored feasibility result has a score between 20 and 100.
C3_ScoreInRange ==
    feasibility # NULL => feasibility.score >= 20 /\ feasibility.score <= 100

\* the lowest score, stored by the dashboard
C3_Witness ==
    /\ feasibility # NULL
    /\ feasibility.score = 20

\* C4: the stored status is optimal exactly for scores of 80 and more, moderate
\* exactly from 60 to 79, not-recommended exactly below 60.
C4_StatusMatchesScore ==
    feasibility # NULL =>
        /\ feasibility.status = "optimal" <=> feasibility.score >= 80
        /\ feasibility.status = "moderate" <=>
               (feasibility.score >= 60 /\ feasibility.score < 80)
        /\ feasibility.status = "not-recommended" <=> feasibility.score < 60

\* a score exactly on the optimal threshold
C4_Witness ==
    /\ feasibility # NULL
    /\ feasibility.score = 80
    /\ feasibility.status = "optimal"

\* C5: generating again on identical inputs yields the identical list, whenever the
\* two invocations run (the engine's inputs never change in SpecEngine).
C5_SameInputsSameList ==
    [][("generate" \in ran /\ "generate" \in ran') => recommendations' = recommendations]_vars

rank(t) ==
    CASE t = "solar" -> 1
      [] t = "wind" -> 2
      [] t = "economic" -> 3
      [] t = "environmental" -> 4
      [] t = "battery" -> 5
      [] t = "grid" -> 6

\* C6: the stored list follows the rule-declaration order solar, wind, economic,
\* environmental, battery, grid, each category at most once; it is not sorted by priority.
C6_DeclarationOrder ==
    \A i, j \in 1..Len(recommendations) :
        i < j => rank(recommendations[i].type) < rank(recommendations[j].type)

\* a critical battery entry stored after a medium economic entry
C6_Witness ==
    \E i, j \in 1..Len(recommendations) :
        /\ i < j
        /\ recommendations[i].type = "economic" /\ recommendations[i].priority = "medium"
        /\ recommendations[j].type = "battery" /\ recommendations[j].priority = "critical"

\* the projection of section 4.3 on a snapshot, a demand and a grid cost
projectedGeneration(snap) == Mul(Add(snap.solar.average, snap.wind.average), Frac(8, 10))

projectedGridUsage(snap, dailyDemand) ==
    LET rest == Sub(dailyDemand, projectedGeneration(snap))
    IN  IF rest.n > 0 THEN rest ELSE Num(0)

projectedSavings(snap, dailyDemand, gridCost) ==
    Mul(Sub(dailyDemand, projectedGridUsage(snap, dailyDemand)), gridCost)

\* C7: with nothing pending and a snapshot present, the stored savings, payback and
\* carbon figures are the projection of the current snapshot, demand and grid cost.
C7_DerivedFiguresCurrent ==
    (pending = {} /\ energyData # NULL) =>
        LET daily == projectedSavings(energyData, ef_energyConsumption.dailyDemand,
                                      ef_costAnalysis.gridCost)
            annual == Mul(daily, Num(365))
        IN  /\ ef_costAnalysis.renewableSavings = daily
            /\ ef_costAnalysis.annualSavings = annual
            /\ ef_costAnalysis.paybackPeriod =
                   (IF annual.n > 0 THEN Div(Num(80000), annual) ELSE Num(0))
            /\ ef_carbonFootprint.currentEmissions =
                   Mul(ef_energyConsumption.dailyDemand, Frac(82, 100))
            /\ ef_carbonFootprint.renewableReduction =
                   Mul(projectedGeneration(energyData), Frac(82, 100))

\* C8: a scoring pass computes the list from the consumption profile and grid cost
\* the user has configured: the environmental rule is tested on the edited
\* dailyDemand and the economic savings use the edited gridCost.
C8_GeneratorUsesEditedInputs ==
    [][("scoring" \in pending /\ energyData # NULL /\ location # NULL) =>
          /\ entriesOf(recommendations', "environmental") # {} <=>
                 ruleHolds("environmental", energyData, battery.percentage,
                           ef_energyConsumption.dailyDemand)
          /\ \A i \in entriesOf(recommendations', "economic") :
                 recommendations'[i].message[2] =
                     toFixed(Mul(Mul(Add(energyData.solar.average, energyData.wind.average),
                                     ef_costAnalysis.gridCost), Frac(8, 10)), 0)]_vars

\* C9: calculateEnhancedMetrics stores the savings, emissions, reduction and tree
\* figures of the formulas and keeps gridCost as it was (in SpecEngine costAnalysis
\* keeps the drawn gridCost); demand 25, averages 5 and 4, cost 8.5 give 61.2 a day.
C9_MetricsFormulas ==
    "metrics" \in ran =>
        LET dd == ef_energyConsumption.dailyDemand
            gen == projectedGeneration(energyData)
            daily == projectedSavings(energyData, dd, ef_costAnalysis.gridCost)
            reduction == Mul(gen, Frac(82, 100))
        IN  /\ ef_costAnalysis.renewableSavings = daily
            /\ ef_costAnalysis.annualSavings = Mul(daily, Num(365))
            /\ ef_costAnalysis.gridCost = costAnalysis.gridCost
            /\ ef_carbonFootprint.currentEmissions = Mul(dd, Frac(82, 100))
            /\ ef_carbonFootprint.renewableReduction = reduction
            /\ ef_carbonFootprint.annualSavings = Mul(reduction, Num(365))
            /\ Mul(ef_carbonFootprint.treesEquivalent, Num(22)) = Mul(reduction, Num(365))
            /\ (/\ dd = Num(25) /\ energyData.solar.average = Num(5)
                /\ energyData.wind.average = Num(4) /\ ef_costAnalysis.gridCost = Frac(85, 10)
                => /\ gen = Frac(72, 10)
                   /\ projectedGridUsage(energyData, dd) = Frac(178, 10)
                   /\ ef_costAnalysis.renewableSavings = Frac(612, 10))

\* the worked example, computed
C9_Witness ==
    /\ "metrics" \in ran
    /\ ef_energyConsumption.dailyDemand = Num(25)
    /\ energyData.solar.average = Num(5)
    /\ energyData.wind.average = Num(4)
    /\ ef_costAnalysis.gridCost = Frac(85, 10)
    /\ ef_costAnalysis.renewableSavings = Frac(612, 10)

\* C10: the stored payback period is 0 when annual savings are zero or negative and
\* 80000 / annualSavings otherwise; it is never the result of a division by zero.
C10_PaybackGuarded ==
    "metrics" \in ran =>
        LET annual == ef_costAnalysis.annualSavings
            payback == ef_costAnalysis.paybackPeriod
        IN  /\ IsFinite(payback)
            /\ annual.n <= 0 => payback = Num(0)
            /\ annual.n > 0 => payback = Frac(80000 * annual.d, annual.n)

\* negative savings from a negative grid cost, payback 0
C10_Witness ==
    /\ "metrics" \in ran
    /\ ef_costAnalysis.gridCost = Num(-1)
    /\ ef_costAnalysis.annualSavings.n < 0
    /\ ef_costAnalysis.paybackPeriod = Num(0)

\* C11: with a daily demand of 0 and the effects settled, every figure that divides
\* by the demand or by the savings is the sentinel 0: the payback period, the daily
\* carbon-reduction percentage and the grid-independence ratio.
C11_DegenerateArithmeticGuarded ==
    (pending = {} /\ energyData # NULL /\ ef_energyConsumption.dailyDemand = Num(0)) =>
        /\ ef_costAnalysis.paybackPeriod = Num(0)
        /\ carbonReductionPercent(ef_carbonFootprint) = Num(0)
        /\ gridIndependence(energyData, ef_energyConsumption) = Num(0)

\* the demand the battery runtime divides by, before any guard
averageDemandOf(snap) ==
    IF snap = NULL THEN Num(5)
    ELSE Frac(snap.solar.average.n * snap.wind.average.d
                  + snap.wind.average.n * snap.solar.average.d,
              2 * snap.solar.average.d * snap.wind.average.d)

\* currentCharge / capacity * 100 in JavaScript arithmetic: not finite for capacity 0
percentageIsCurrent ==
    IF battery.capacity.n = 0 THEN ~IsFinite(battery.percentage)
    ELSE battery.percentage = Frac(battery.currentCharge.n * 100 * battery.capacity.d,
                                   battery.currentCharge.d * battery.capacity.n)

\* small positive values an epsilon may stand for
Epsilons == {Frac(1, 1000), Frac(1, 100), Frac(1, 10), Num(1)}

\* C12 as stated: once the battery effect has run on the current inputs, percentage is
\* currentCharge / capacity * 100 and runtime is currentCharge / max(averageDemand, eps)
\* for a small positive eps.
C12_RuntimeDividesByMaxEpsilon ==
    ("battery" \in ran /\ "battery" \notin pending) =>
        /\ percentageIsCurrent
        /\ \E eps \in Epsilons :
               LET divisor == IF GT(averageDemandOf(energyData), eps)
                              THEN averageDemandOf(energyData) ELSE eps
               IN  battery.runtime = Frac(battery.currentCharge.n * divisor.d,
                                          battery.currentCharge.d * divisor.n)

\* C12, amended: once the battery effect has run on the current inputs, percentage is
\* currentCharge / capacity * 100 and runtime is currentCharge / d, where d is
\* (solar.average + wind.average) / 2 when a snapshot exists and that value is not 0,
\* and 5 otherwise; d is never 0.
C12_RuntimeDividesByDemandOrFive ==
    ("battery" \in ran /\ "battery" \notin pending) =>
        LET d == IF averageDemandOf(energyData).n = 0 THEN Num(5)
                 ELSE averageDemandOf(energyData)
        IN  /\ percentageIsCurrent
            /\ d.n # 0
            /\ battery.runtime = Frac(battery.currentCharge.n * d.d,
                                      battery.currentCharge.d * d.n)

\* a snapshot whose averages are both 0, and the runtime computed with the divisor 5
C12_Witness ==
    /\ "battery" \in ran /\ "battery" \notin pending
    /\ energyData # NULL
    /\ energyData.solar.average = Num(0) /\ energyData.wind.average = Num(0)
    /\ battery.currentCharge = Num(50)
    /\ battery.runtime = Num(10)

\* C13: in every reachable state capacity > 0 and 0 <= currentCharge <= capacity.
C13_ChargeWithinCapacity ==
    /\ GT(battery.capacity, Num(0))
    /\ GE(battery.currentCharge, Num(0))
    /\ LE(battery.currentCharge, battery.capacity)

Sources == {"solar", "wind"}

\* C14: a stored snapshot has finite, non-negative current, average and peak for solar
\* and for wind, whatever series the responses carried, the empty one included.
C14_SnapshotNonNegative ==
    energyData # NULL =>
        \A src \in Sources :
            /\ IsFinite(energyData[src].current) /\ energyData[src].current.n >= 0
            /\ IsFinite(energyData[src].average) /\ energyData[src].average.n >= 0
            /\ IsFinite(energyData[src].peak) /\ energyData[src].peak.n >= 0

\* C15: the step on which the fetch of the series fails (its toast appears) stores the
\* fallback snapshot, 4.2 / 5.1 / 8.3 and 3.8 / 4.2 / 7.9 with 7 samples each, keeps
\* the stored location, ends the acquisition and clears loading as a normal return of
\* fetchLocationData does; the toast of fetchLocationData's own catch is not shown.
C15_FetchFailureStoresFallback ==
    [][(notification' = "Failed to fetch energy data" /\ notification' # notification) =>
          /\ energyData' # NULL
          /\ energyData'.solar.current = Frac(42, 10)
          /\ energyData'.solar.average = Frac(51, 10)
          /\ energyData'.solar.peak = Frac(83, 10)
          /\ energyData'.wind.current = Frac(38, 10)
          /\ energyData'.wind.average = Frac(42, 10)
          /\ energyData'.wind.peak = Frac(79, 10)
          /\ Len(energyData'.solar.data) = 7 /\ Len(energyData'.wind.data) = 7
          /\ location # NULL /\ location' = location
          /\ loading' = FALSE
          /\ chains' = {}]_vars

\* the fallback snapshot stored next to the location the failed fetch was for
C15_Witness ==
    /\ notification = "Failed to fetch energy data"
    /\ location # NULL
    /\ energyData # NULL
    /\ energyData.solar.average = Frac(51, 10)
    /\ ~loading

\* C16: whichever steps of the acquisition fail, the dashboard eventually holds a
\* snapshot (every request in flight settles, the user does nothing).
C16_EventuallySnapshot == <>(energyData # NULL)

\* C17: while energyData is null there is no feasibility result and the list is empty.
C17_NoScoringWithoutSnapshot ==
    energyData = NULL => feasibility = NULL /\ recommendations = <<>>

\* the scoring effect has run for a stored location, with no snapshot yet
C17_Witness ==
    /\ energyData = NULL
    /\ location # NULL
    /\ pending = {}
    /\ feasibility = NULL

firingRules(snap, pct, dailyDemand) == {t \in Categories : ruleHolds(t, snap, pct, dailyDemand)}

\* C18: a scoring pass leaves in the stored list exactly one entry for each rule that
\* holds on the pass's inputs and nothing else, whatever the list held before; when no
\* rule holds the stored list is empty.
C18_ListReplacedWholesale ==
    [][("scoring" \in pending /\ energyData # NULL /\ location # NULL) =>
          LET firing == firingRules(energyData, battery.percentage,
                                    energyConsumption.dailyDemand)
          IN  /\ \A t \in Categories :
                     Cardinality(entriesOf(recommendations', t)) =
                         IF t \in firing THEN 1 ELSE 0
              /\ Len(recommendations') = Cardinality(firing)
              /\ (firing = {} => recommendations' = <<>>)]_vars

\* a non-empty list about to be replaced by a pass on which no rule holds
C18_Witness ==
    /\ "scoring" \in pending /\ energyData # NULL /\ location # NULL
    /\ recommendations # <<>>
    /\ firingRules(energyData, battery.percentage, energyConsumption.dailyDemand) = {}

\* texts that start with no number
NonNumericTexts == {"", "abc"}

C20_SettledStateIsCurrent ==
    (pending = {} /\ energyData # NULL /\ location # NULL) =>
        LET d == IF averageDemandOf(energyData).n = 0 THEN Num(5)
                 ELSE averageDemandOf(energyData)
            s == expectedSolarBand(energyData.solar.average)
            w == expectedWindBand(energyData.wind.average)
            b == expectedBatteryBand(battery.runtime)
            bonus == expectedBonus(energyData.solar.peak, energyData.wind.peak)
            firing == firingRules(energyData, battery.percentage,
                                  energyConsumption.dailyDemand)
        IN  /\ percentageIsCurrent
            /\ battery.runtime = Frac(battery.currentCharge.n * d.d,
                                      battery.currentCharge.d * d.n)
            /\ feasibility # NULL
            /\ feasibility.score = s[1] + w[1] + b[1] + (IF bonus THEN 10 ELSE 0)
            /\ feasibility.reason =
                   <<s[2], ", ", w[2], ", ", b[2]>>
                       \o (IF bonus THEN <<", ", "reliable energy peaks">> ELSE <<>>)
            /\ feasibility.status =
                   (IF feasibility.score >= 80 THEN "optimal"
                    ELSE IF feasibility.score >= 60 THEN "moderate" ELSE "not-recommended")
            /\ \A t \in Categories :
                   Cardinality(entriesOf(recommendations, t)) = IF t \in firing THEN 1 ELSE 0

\* settled after the charge was lowered to 10 of 100: the pass that ran in the same
\* commit as the battery effect saw the old percentage, the stored list has the new one
C20_Witness ==
    /\ pending = {} /\ energyData # NULL /\ location # NULL
    /\ battery.capacity = Num(100) /\ battery.currentCharge = Num(10)
    /\ battery.percentage = Num(10)
    /\ entriesOf(recommendations, "battery") # {}

\* C21: the effects settle.  A commit that ran the battery effect leaves only the
\* effects that read battery to run again, the commit after it leaves none, and so
\* whenever effects are pending a state with none pending follows.
C21_EffectsSettle ==
    /\ [][pending # {} =>
            /\ "battery" \notin pending'
            /\ ("battery" \notin pending => pending' = {})]_vars
    /\ (pending # {}) ~> (pending = {})

\* the battery effect has written battery and the effects reading it are to run again
C21_Witness ==
    /\ pending = {"scoring", "metrics"}
    /\ "battery" \in ran
    /\ energyData # NULL

\* C22: whenever loading is true it is false again later, whichever way the
\* acquisition goes.
C22_LoadingEnds == loading ~> ~loading

\* the acquisition begun on mount has ended in a failure, loading is false again
C22_Witness ==
    /\ ~loading
    /\ "mount" \notin pending
    /\ chains = {}
    /\ location = NULL
    /\ notification = ""

\* C23: while an acquisition is in flight loading is true, and at most one is in flight.
C23_OneChainWhileLoading ==
    /\ chains # {} => loading
    /\ Cardinality(chains) <= 1

\* an acquisition started from the manual form after a failed one, in flight
C23_Witness ==
    /\ loading
    /\ notification = "Failed to fetch location data"
    /\ \E c \in chains : c.step = "reverse-geocode"

\* C24: a stored snapshot comes with a stored location.
C24_SnapshotImpliesLocation == energyData # NULL => location # NULL

\* a live snapshot stored for the located position
C24_Witness ==
    /\ energyData # NULL
    /\ location # NULL
    /\ notification = "Energy Data Updated"

\* C25: once stored, location never changes, and once stored, energyData never changes.
C25_WriteOnce ==
    [][/\ location # NULL => location' = location
       /\ energyData # NULL => energyData' = energyData]_vars

\* both stored, the battery edited since and the effects settled
C25_Witness ==
    /\ location # NULL /\ energyData # NULL
    /\ battery.capacity = Num(0)
    /\ pending = {}
    /\ chains = {}

\* C26: a generated list with a grid entry has no solar and no wind entry, and no
\* generated list has more than 5 entries.
C26_GridExcludesSolarAndWind ==
    "generate" \in ran =>
        /\ entriesOf(recommendations, "grid") # {} =>
               /\ entriesOf(recommendations, "solar") = {}
               /\ entriesOf(recommendations, "wind") = {}
        /\ Len(recommendations) <= 5

\* the longest list with a grid entry: economic, environmental, battery, grid
C26_Witness ==
    /\ "generate" \in ran
    /\ entriesOf(recommendations, "grid") # {}
    /\ Len(recommendations) = 4

\* C27: an optimal result has solar.average > 4 and wind.average > 3; with solar in
\* its lowest band the score is at most 70, with wind in its lowest band at most 75.
C27_OptimalNeedsSolarAndWind ==
    "score" \in ran =>
        /\ feasibility.status = "optimal" =>
               above(energyData.solar.average, 4) /\ above(energyData.wind.average, 3)
        /\ ~above(energyData.solar.average, 4) => feasibility.score <= 70
        /\ ~above(energyData.wind.average, 3) => feasibility.score <= 75

\* optimal with the battery in its lowest band: 40 + 30 + 5 + 10
C27_Witness ==
    /\ "score" \in ran
    /\ feasibility.status = "optimal"
    /\ feasibility.score = 85
    /\ ~above(battery.runtime, 6)

\* C28: the dashboard's own dailyDemand is 25 and its own gridCost 8.5 in every
\* reachable state, and the stored list never has an environmental entry.
C28_DashboardProfileFixed ==
    /\ energyConsumption.dailyDemand = Num(25)
    /\ costAnalysis.gridCost = Frac(85, 10)
    /\ entriesOf(recommendations, "environmental") = {}

\* the list generated anew after the user raised the demand to 700 in EnhancedFeatures
C28_Witness ==
    /\ ef_energyConsumption.dailyDemand = Num(700)
    /\ battery.currentCharge = Num(10)
    /\ pending = {}
    /\ entriesOf(recommendations, "battery") # {}

\* C29: a weather request that fails, by a thrown error or by an answer that is not
\* OK, stores the fallback record, so once a request has completed with a known
\* location weatherData is not null; with location null no request is issued and
\* weatherData stays as it was.
C29_FailedWeatherStoresFallback ==
    /\ ("weather" \in ran /\ location # NULL) => weatherData # NULL
    /\ location = NULL => (weatherRequests = 0 /\ weatherData = NULL)

\* the appliance list of the rendered state
appliances == ef_energyConsumption.appliances

ApplianceFields == {"name", "power", "hours"}

\* this step leaves every row but the one at index alone and writes value into
\* its field only
updatesOnly(index, field, value) ==
    /\ Len(appliances') = Len(appliances)
    /\ \A i \in 1..Len(appliances) : i - 1 # index => appliances'[i] = appliances[i]
    /\ appliances'[index + 1][field] = value
    /\ \A g \in ApplianceFields \ {field} :
           appliances'[index + 1][g] = appliances[index + 1][g]

\* this step drops the row at index and keeps the others in their order
removesOnly(index) ==
    /\ Len(appliances') = Len(appliances) - 1
    /\ \A i \in 1..Len(appliances') :
           appliances'[i] = IF i - 1 < index THEN appliances[i] ELSE appliances[i + 1]

\* C30: addAppliance appends the default entry at the end, removeAppliance(i) drops
\* exactly row i and keeps the order of the rest, updateAppliance(i, f, v) changes
\* field f of row i only; each leaves dailyDemand and peakHours as they were; the
\* cost and carbon projections are those of dailyDemand whatever the appliances
\* are; and adding an appliance then removing the last row gives the list back.
C30_ApplianceEditsFrame ==
    [][/\ AddAppliance => appliances' = Append(appliances, defaultAppliance)
       /\ \A index \in 0..(Len(appliances) - 1) :
              /\ RemoveAppliance(index) => removesOnly(index)
              /\ \A value \in ApplianceNames :
                     UpdateAppliance(index, "name", value) => updatesOnly(index, "name", value)
              /\ \A value \in AppliancePowers :
                     UpdateAppliance(index, "power", value) => updatesOnly(index, "power", value)
              /\ \A value \in ApplianceHours :
                     UpdateAppliance(index, "hours", value) => updatesOnly(index, "hours", value)
       /\ edits' # edits =>
              /\ ef_energyConsumption'.dailyDemand = ef_energyConsumption.dailyDemand
              /\ ef_energyConsumption'.peakHours = ef_energyConsumption.peakHours
              /\ appliances' # appliances
       /\ (FeaturesEffect /\ energyData # NULL) =>
              /\ ef_carbonFootprint'.currentEmissions =
                     Mul(ef_energyConsumption.dailyDemand, Frac(82, 100))
              /\ ef_carbonFootprint' =
                     carbonProjection(energyData, [ef_energyConsumption EXCEPT !.appliances = <<>>])
              /\ ef_costAnalysis' =
                     costProjection(energyData, [ef_energyConsumption EXCEPT !.appliances = <<>>],
                                    ef_costAnalysis, ef_costAnalysis)
       /\ removeAppliance(addAppliance(ef_energyConsumption), Len(appliances)) =
              ef_energyConsumption]_vars

\* an appliance added and the last row removed again, the projections made anew
C30_Witness ==
    /\ edits = 2
    /\ appliances = ef_initialConsumption.appliances
    /\ "metrics" \in ran
    /\ pending = {}

====
